---- MODULE Spec2Model ----
(***************************************************************************)
(* Model of the load-balancing engine of Dice: the service registry's      *)
(* deployment list, the Weighted Round Robin scheduler, and the proxy's    *)
(* request handler.                                                        *)
(*                                                                         *)
(* Entities are shared objects (the deployments hold *entity.Node and      *)
(* *entity.Instance pointers), so nodes and instances are tables keyed by  *)
(* ID and a deployment is a pair of IDs.                                   *)
(***************************************************************************)
EXTENDS Integers, Sequences, FiniteSets, TLC

\* ------------------------------------------------------------------ bounds
\* longest deployment list of the service
MaxDeps == 2
\* largest node weight drawn (entity.Node.Weight is a uint8)
MaxWeight == 2
\* Next() is called only while the cursor is below this value
MaxIndex == 4
\* number of Next() calls of the scheduler test loop
MaxRuns == 8
\* chunks of an upstream response body
MaxChunks == 2
\* longest URL list of a service entity
MaxURLs == 2

\* ---------------------------------------------------------------- entities
NodeIDs == {"n1", "n2", "n3"}
InstanceIDs == {"i1", "i2", "i3", "i4", "i5"}
ServiceIDs == {"s1", "s2"}

\* entities the registry operations draw their arguments from
PoolNodes == {"n1", "n2"}
PoolInstances == {"i1", "i3"}

\* Instance.NodeID: the node an instance has been deployed to
NodeOf(i) ==
    CASE i \in {"i1", "i2"} -> "n1"
      [] i \in {"i3", "i4"} -> "n2"
      [] OTHER -> "n3"

\* entity.Node and entity.Instance: the fields the engine reads and writes
Node == [Weight : 0..MaxWeight, IsAttached : BOOLEAN, IsAlive : BOOLEAN]
Instance == [IsAttached : BOOLEAN, IsAlive : BOOLEAN]

Deployment(n, i) == [Node |-> n, Instance |-> i]
NoDeployment == [Node |-> "nil", Instance |-> "nil"]

VARIABLES
    nodes,        \* NodeIDs -> Node: the node objects the deployments point to
    instances,    \* InstanceIDs -> Instance: the instance objects
    Deployments,  \* registry.Service.Deployments of service s1
    wrr,          \* the WeightedRoundRobin of service s1
    pc,           \* position of the running call
    attempts,     \* Next(): local variable attempts
    ret,          \* return value of the last completed operation
    run,          \* TestWeightedRoundRobin_Next: loop variable run
    routes,       \* RouteRegistry: host -> service ID
    service,      \* registry.Service s1: Entity.IsEnabled, Scheduler != nil
    req,          \* the request being handled by Proxy.handleRequest
    w,            \* its http.ResponseWriter: status line and body written
    backend,      \* its upstream round trip: attempted, and the response
                  \* ("nil", or "open": no code path closes its body)
    Services,     \* ServiceRegistry.Services: the stored service objects
    mut,          \* a deployment mutation running concurrently with Next()
    walk,         \* the last UpdateNodes/UpdateServices/UpdateInstances walk
    call,         \* the last registry call under observation: its arguments
                  \* and the registry as it was when the call was made
    hc,           \* the HealthCheck: its periodic loop, the round in progress
                  \* and the goroutine calling Stop()
    kv,           \* KVStore: the node bucket, node ID -> stored JSON value
    out,          \* what the last store or factory call returned
    written,      \* per node ID, the node the last write stored (or none)
    tasks         \* the dispatcher tasks calling Next() side by side: their
                  \* positions and locals

sched == <<nodes, instances, Deployments, wrr, pc, attempts, ret, run>>
proxy == <<routes, service, req, w, backend>>
reg == <<Services, mut, walk, call>>
ext == <<hc, kv, out, written, tasks>>
vars == <<nodes, instances, Deployments, wrr, pc, attempts, ret, run,
          routes, service, req, w, backend, Services, mut, walk, call,
          hc, kv, out, written, tasks>>

\* --------------------------------------------------------------- scheduler
\* newWeightedRoundRobin
newWeightedRoundRobin(deployments) ==
    [deployments |-> deployments, currentIndex |-> 0, currentWeight |-> 0]

NoReturn == [kind |-> "none", d |-> NoDeployment]
ReturnInstance(d) == [kind |-> "instance", d |-> d]
ReturnError(e) == [kind |-> e, d |-> NoDeployment]

ErrNoInstance == "no service instance found"
\* a run-time panic of the Go runtime (integer divide by zero, index out of
\* range, nil dereference)
Panic == "panic"

\* the loop condition of the superseded revision: one attempt less
LoopCondStrict(a, len) == a < len

\* a lookup loop without the attempts limit
LoopCondUnbounded(a, len) == TRUE

\* Next(): the loop condition
LoopCond(a, len) == a <= len

\* a lookup that forgets the liveness of the instance
IsSkippedDetachedOnly(d) == ~instances[d.Instance].IsAttached

\* Next(): the deployment is skipped
IsSkipped(d) ==
    ~instances[d.Instance].IsAttached \/ ~instances[d.Instance].IsAlive

\* a capacity check that lets the counter reach the weight first
HasCapacityInclusive(weight, currentWeight) == weight >= currentWeight

\* Next(): the node still has capacity
HasCapacity(weight, currentWeight) == weight > currentWeight

\* Next(): the node's maximum weight has been reached
WeightReached(weight, currentWeight) == weight = currentWeight

\* currentIndex is an int: its width, scaled down to what a search can cover
IntBits == 6
MaxInt == 2^(IntBits - 1) - 1

\* the value an int holds after an arithmetic result x: it wraps around
WrapInt(x) == IF x > MaxInt THEN x - 2^IntBits ELSE x

\* Go's a % n: the remainder has the sign of the dividend
Rem(a, n) == IF a >= 0 THEN a % n ELSE 0 - ((0 - a) % n)

\* entry into Next(): attempts := 0
Call ==
    /\ pc = "idle"
    /\ pc' = "lookup"
    /\ attempts' = 0
    /\ ret' = NoReturn
    /\ UNCHANGED <<ext, nodes, instances, Deployments, wrr, routes, service, w, backend,
                   reg>>

\* one evaluation of the loop condition and, if it holds, of the loop body
Lookup ==
    /\ pc = "lookup"
    /\ LET len == Len(wrr.deployments) IN
       IF ~LoopCond(attempts, len)
       THEN /\ ret' = ReturnError(ErrNoInstance)
            /\ pc' = "idle"
            /\ UNCHANGED <<wrr, attempts>>
       ELSE IF len = 0
       THEN \* wrr.currentIndex % 0
            /\ ret' = ReturnError(Panic)
            /\ pc' = "idle"
            /\ UNCHANGED <<wrr, attempts>>
       ELSE LET index == Rem(wrr.currentIndex, len)
                d == wrr.deployments[index + 1]
            IN
            IF index < 0
            THEN \* (wrr.deployments)[index]: index out of range
                 /\ ret' = ReturnError(Panic)
                 /\ pc' = "idle"
                 /\ UNCHANGED <<wrr, attempts>>
            ELSE IF IsSkipped(d)
            THEN /\ wrr' = [wrr EXCEPT !.currentIndex = WrapInt(@ + 1),
                                       !.currentWeight = 0]
                 /\ attempts' = attempts + 1
                 /\ UNCHANGED <<pc, ret>>
            ELSE IF HasCapacity(nodes[d.Node].Weight, wrr.currentWeight)
            THEN /\ wrr' = [wrr EXCEPT !.currentWeight = (@ + 1) % 256]
                 /\ ret' = ReturnInstance(d)
                 /\ pc' = "idle"
                 /\ UNCHANGED attempts
            ELSE IF WeightReached(nodes[d.Node].Weight, wrr.currentWeight)
            THEN /\ wrr' = [wrr EXCEPT !.currentIndex = WrapInt(@ + 1),
                                       !.currentWeight = 0]
                 /\ attempts' = attempts + 1
                 /\ UNCHANGED <<pc, ret>>
            ELSE /\ attempts' = attempts + 1
                 /\ UNCHANGED <<wrr, pc, ret>>
    /\ UNCHANGED <<ext, nodes, instances, Deployments, run, proxy, reg>>

\* a caller invokes Next()
NextCall ==
    /\ wrr.currentIndex < MaxIndex
    /\ Call
    /\ UNCHANGED <<run, req>>

\* the test's loop: for run := 0; run < len(assertions); run++ { wrr.Next() }
TestNextCall ==
    /\ run < MaxRuns
    /\ Call
    /\ run' = run + 1
    /\ UNCHANGED req

\* a caller invokes Next() however far the cursor has come
AnyCall ==
    /\ Call
    /\ UNCHANGED <<run, req>>

\* --- Next() called by two request goroutines on one scheduler: no lock
\* orders their reads and writes of currentIndex and currentWeight
Tasks == {1, 2}

\* a task outside Next(); within it, tpc is its position, attempts its local,
\* branch the if statement it has entered, index and weight the values of
\* currentIndex and currentWeight it has read, ret what its call returned
IdleTask ==
    [tpc |-> "idle", attempts |-> 0, branch |-> "none", index |-> 0,
     weight |-> 0, ret |-> NoReturn]
NoTasks == [t \in Tasks |-> IdleTask]

\* a task enters Next(): attempts := 0
raceCall(t) ==
    /\ tasks[t].tpc = "idle"
    /\ wrr.currentIndex < MaxIndex
    /\ tasks' = [tasks EXCEPT ![t] = [IdleTask EXCEPT !.tpc = "lookup"]]
    /\ UNCHANGED <<sched, proxy, reg, hc, kv, out, written>>

\* a task evaluates the loop condition and the conditions of the loop body
\* on what it reads now
raceRead(t) ==
    /\ tasks[t].tpc = "lookup"
    /\ LET len == Len(wrr.deployments)
           index == Rem(wrr.currentIndex, len)
           d == wrr.deployments[index + 1]
           here == [tasks[t] EXCEPT !.index = wrr.currentIndex,
                                    !.weight = wrr.currentWeight]
       IN
       tasks' = [tasks EXCEPT ![t] =
          IF ~LoopCond(tasks[t].attempts, len)
          THEN [@ EXCEPT !.tpc = "idle", !.ret = ReturnError(ErrNoInstance)]
          ELSE IF len = 0 \/ index < 0
          THEN [@ EXCEPT !.tpc = "idle", !.ret = ReturnError(Panic)]
          ELSE IF IsSkipped(d)
          THEN [here EXCEPT !.tpc = "write", !.branch = "skip"]
          ELSE IF HasCapacity(nodes[d.Node].Weight, wrr.currentWeight)
          THEN [here EXCEPT !.tpc = "write", !.branch = "pick",
                            !.ret = ReturnInstance(d)]
          ELSE IF WeightReached(nodes[d.Node].Weight, wrr.currentWeight)
          THEN [here EXCEPT !.tpc = "write", !.branch = "advance"]
          ELSE [@ EXCEPT !.attempts = @ + 1]]
    /\ UNCHANGED <<sched, proxy, reg, hc, kv, out, written>>

\* the task runs the statements of the branch it has entered. An increment
\* adds one to the value the task has read before or to the value the
\* variable holds by now: the build decides which.
raceWrite(t, fresh) ==
    /\ tasks[t].tpc = "write"
    /\ LET index == IF fresh THEN wrr.currentIndex ELSE tasks[t].index
           weight == IF fresh THEN wrr.currentWeight ELSE tasks[t].weight
       IN
       IF tasks[t].branch = "pick"
       THEN /\ wrr' = [wrr EXCEPT !.currentWeight = (weight + 1) % 256]
            /\ tasks' = [tasks EXCEPT ![t].tpc = "idle", ![t].branch = "none"]
       ELSE /\ wrr' = [wrr EXCEPT !.currentIndex = WrapInt(index + 1),
                                  !.currentWeight = 0]
            /\ tasks' = [tasks EXCEPT ![t].tpc = "lookup",
                                      ![t].branch = "none",
                                      ![t].attempts = @ + 1]
    /\ UNCHANGED <<nodes, instances, Deployments, pc, attempts, ret, run, proxy,
                   reg, hc, kv, out, written>>

\* ---------------------------------------------------------------- registry
ErrUnregisteredService == "service is not registered"
ErrUnregisteredDeployment == "deployment is not registered"
ErrDeploymentNotRemovable == "deployed instance is attached on an attached node"
\* a registry operation that returns a nil error
Nil == "nil"

\* no deployment mutation is running beside the scheduler
NoMutation ==
    [mpc |-> "idle", op |-> "none", d |-> NoDeployment, index |-> -1,
     before |-> <<>>, err |-> "nil"]

\* no walk over the registry has been made
NoWalk == [op |-> "none", failing |-> {}, visited |-> <<>>, err |-> "nil"]

\* no registry call has been observed
NoCall ==
    [op |-> "none", d |-> NoDeployment, serviceID |-> "none", route |-> "none",
     urls |-> <<>>, force |-> FALSE, node |-> FALSE, instance |-> FALSE,
     Deployments |-> <<>>, Services |-> <<>>, routes |-> <<>>]

\* a key without entry in ServiceRegistry.Services
NoServiceObject == [registered |-> FALSE, URLs |-> <<>>]
\* a stored *Service: the URLs of its Entity
ServiceObject(urls) == [registered |-> TRUE, URLs |-> urls]

\* the keys of ServiceRegistry.Services
RegisteredServices == {s \in ServiceIDs : Services[s].registered}

\* a registry that forgets to hand the new list to the scheduler
UpdateDeploymentsDropped(deployments) == wrr

\* WeightedRoundRobin.UpdateDeployments
UpdateDeployments(deployments) == [wrr EXCEPT !.deployments = deployments]

\* Deployment.isRemovable, on the attach flags of the deployment's entities
isRemovable(nodeIsAttached, instanceIsAttached) ==
    ~nodeIsAttached /\ ~instanceIsAttached

\* Deployment.equals
equals(d, other) == d.Node = other.Node /\ d.Instance = other.Instance

\* ServiceRegistry.indexOfDeployment: 0-based, -1 if no deployment matches
indexOfDeployment(ds, deployment) ==
    IF \E k \in 1..Len(ds) : equals(ds[k], deployment)
    THEN (CHOOSE k \in 1..Len(ds) :
             /\ equals(ds[k], deployment)
             /\ \A j \in 1..(k - 1) : ~equals(ds[j], deployment)) - 1
    ELSE -1

\* a removal that shortens the list without moving the last entry
RemoveLast(ds, index) == SubSeq(ds, 1, Len(ds) - 1)

\* Deployments[index] = Deployments[len-1]; Deployments = Deployments[:len-1]
RemoveAt(ds, index) ==
    SubSeq([ds EXCEPT ![index + 1] = ds[Len(ds)]], 1, Len(ds) - 1)

\* ServiceRegistry.RegisterDeployment, for the deployment of instance i whose
\* ServiceID field is serviceID
RegisterDeployment(i, serviceID) ==
    /\ pc = "idle"
    /\ Len(Deployments) < MaxDeps
    /\ IF serviceID \notin RegisteredServices
       THEN /\ ret' = ReturnError(ErrUnregisteredService)
            /\ UNCHANGED <<Deployments, wrr>>
       ELSE /\ Deployments' = Append(Deployments, Deployment(NodeOf(i), i))
            /\ IF service.SchedulerSet
               THEN /\ wrr' = UpdateDeployments(Deployments')
                    /\ ret' = ReturnError(Nil)
               ELSE \* service.Scheduler.UpdateDeployments on a nil Scheduler
                    /\ ret' = ReturnError(Panic)
                    /\ UNCHANGED wrr
    /\ UNCHANGED <<ext, nodes, instances, pc, attempts, run, proxy, Services, mut,
                   walk>>

\* ServiceRegistry.UnregisterDeployment. The argument is a deployment value of
\* the caller: its entities carry the attach flags argNode and argInstance.
UnregisterDeployment(i, serviceID, argNode, argInstance, force) ==
    /\ pc = "idle"
    /\ LET deployment == Deployment(NodeOf(i), i)
           index == indexOfDeployment(Deployments, deployment)
       IN
       IF serviceID \notin RegisteredServices
       THEN /\ ret' = ReturnError(ErrUnregisteredService)
            /\ UNCHANGED <<Deployments, wrr>>
       ELSE IF index = -1
       THEN /\ ret' = ReturnError(ErrUnregisteredDeployment)
            /\ UNCHANGED <<Deployments, wrr>>
       ELSE IF ~force /\ ~isRemovable(argNode, argInstance)
       THEN /\ ret' = ReturnError(ErrDeploymentNotRemovable)
            /\ UNCHANGED <<Deployments, wrr>>
       ELSE /\ Deployments' = RemoveAt(Deployments, index)
            /\ IF service.SchedulerSet
               THEN /\ wrr' = UpdateDeployments(Deployments')
                    /\ ret' = ReturnError(Nil)
               ELSE \* service.Scheduler.UpdateDeployments on a nil Scheduler
                    /\ ret' = ReturnError(Panic)
                    /\ UNCHANGED wrr
    /\ UNCHANGED <<ext, nodes, instances, pc, attempts, run, proxy, Services, mut,
                   walk>>

\* the record of a call: its arguments and the registry it was made on
Observed(op, d, serviceID, route, urls, force, node, instance) ==
    [op |-> op, d |-> d, serviceID |-> serviceID, route |-> route,
     urls |-> urls, force |-> force, node |-> node, instance |-> instance,
     Deployments |-> Deployments, Services |-> Services, routes |-> routes]

\* a caller's RegisterDeployment, observed
CallRegisterDeployment(i, serviceID) ==
    /\ RegisterDeployment(i, serviceID)
    /\ call' = Observed("RegisterDeployment", Deployment(NodeOf(i), i),
                        serviceID, "none", <<>>, FALSE, FALSE, FALSE)

\* a caller's UnregisterDeployment, observed
CallUnregisterDeployment(i, serviceID, argNode, argInstance, force) ==
    /\ UnregisterDeployment(i, serviceID, argNode, argInstance, force)
    /\ call' = Observed("UnregisterDeployment", Deployment(NodeOf(i), i),
                        serviceID, "none", <<>>, force, argNode, argInstance)

\* --- the deployment mutations statement by statement, as they run beside a
\* Next() call of another goroutine: no lock orders them. The scheduler's slice
\* is the one UpdateDeployments stored, so it shares its backing array with
\* service.Deployments.

\* RegisterDeployment up to the append. The appended element lies behind the
\* end of the scheduler's slice (or in a new array): the scheduler cannot see
\* it yet.
beginRegisterDeployment(i, serviceID) ==
    /\ mut.mpc = "idle"
    /\ Len(Deployments) < MaxDeps
    /\ IF serviceID \notin RegisteredServices
       THEN /\ mut' = [NoMutation EXCEPT !.err = ErrUnregisteredService]
            /\ UNCHANGED Deployments
       ELSE /\ Deployments' = Append(Deployments, Deployment(NodeOf(i), i))
            /\ mut' = [mpc |-> "update", op |-> "RegisterDeployment",
                       d |-> Deployment(NodeOf(i), i), index |-> -1,
                       before |-> Deployments, err |-> Nil]
    /\ UNCHANGED <<ext, nodes, instances, wrr, pc, attempts, ret, run, proxy,
                   Services, walk, call>>

\* UnregisterDeployment up to the force check
beginUnregisterDeployment(i, serviceID, argNode, argInstance, force) ==
    /\ mut.mpc = "idle"
    /\ LET deployment == Deployment(NodeOf(i), i)
           index == indexOfDeployment(Deployments, deployment)
       IN
       IF serviceID \notin RegisteredServices
       THEN mut' = [NoMutation EXCEPT !.err = ErrUnregisteredService]
       ELSE IF index = -1
       THEN mut' = [NoMutation EXCEPT !.err = ErrUnregisteredDeployment]
       ELSE IF ~force /\ ~isRemovable(argNode, argInstance)
       THEN mut' = [NoMutation EXCEPT !.err = ErrDeploymentNotRemovable]
       ELSE mut' = [mpc |-> "write", op |-> "UnregisterDeployment",
                    d |-> deployment, index |-> index,
                    before |-> Deployments, err |-> Nil]
    /\ UNCHANGED <<ext, nodes, instances, Deployments, wrr, pc, attempts, ret, run,
                   proxy, Services, walk, call>>

\* service.Deployments[index] = service.Deployments[len-1]: a write into the
\* array the scheduler reads
writeSlot ==
    /\ mut.mpc = "write"
    /\ Deployments' =
          [Deployments EXCEPT ![mut.index + 1] = Deployments[Len(Deployments)]]
    /\ wrr' = [wrr EXCEPT !.deployments = Deployments']
    /\ mut' = [mut EXCEPT !.mpc = "shrink"]
    /\ UNCHANGED <<ext, nodes, instances, pc, attempts, ret, run, proxy, Services,
                   walk, call>>

\* service.Deployments = service.Deployments[:len-1]
shrinkSlice ==
    /\ mut.mpc = "shrink"
    /\ Deployments' = SubSeq(Deployments, 1, Len(Deployments) - 1)
    /\ mut' = [mut EXCEPT !.mpc = "update"]
    /\ UNCHANGED <<ext, nodes, instances, wrr, pc, attempts, ret, run, proxy,
                   Services, walk, call>>

\* service.Scheduler.UpdateDeployments(service.Deployments); return nil
updateScheduler ==
    /\ mut.mpc = "update"
    /\ wrr' = UpdateDeployments(Deployments)
    /\ mut' = NoMutation
    /\ UNCHANGED <<ext, nodes, instances, Deployments, pc, attempts, ret, run, proxy,
                   Services, walk, call>>

\* --- services and routes
ErrServiceAlreadyRegistered == "service is already registered"
ErrServiceNotRemovable == "service has attached instances on an attached node"
ErrUnregisteredRoute == "route is not registered"
ErrRouteAlreadyRegistered == "route is already registered"

\* a route registry that overwrites a registered route without force
RegisterRouteOverwriting(rr, route, serviceID, force) ==
    [routes |-> [rr EXCEPT ![route] = serviceID], err |-> Nil]

\* RouteRegistry.RegisterRoute on the mapping rr: the new mapping and the error
RegisterRoute(rr, route, serviceID, force) ==
    IF rr[route] # "none" /\ ~force
    THEN [routes |-> rr, err |-> ErrRouteAlreadyRegistered]
    ELSE [routes |-> [rr EXCEPT ![route] = serviceID], err |-> Nil]

\* RouteRegistry.UnregisterRoute on the mapping rr
UnregisterRoute(rr, route) ==
    IF rr[route] = "none"
    THEN [routes |-> rr, err |-> ErrUnregisteredRoute]
    ELSE [routes |-> [rr EXCEPT ![route] = "none"], err |-> Nil]

\* a registration that stores the service without its routes
RegisterNoRoutes(rr, urls, serviceID, force) == [routes |-> rr, err |-> Nil]

\* RegisterService: for _, r := range service.Entity.URLs { RegisterRoute },
\* returning at the first error with the routes registered so far
RECURSIVE RegisterRoutes(_, _, _, _)
RegisterRoutes(rr, urls, serviceID, force) ==
    IF urls = <<>> THEN [routes |-> rr, err |-> Nil]
    ELSE LET r == RegisterRoute(rr, Head(urls), serviceID, force) IN
         IF r.err # Nil THEN r
         ELSE RegisterRoutes(r.routes, Tail(urls), serviceID, force)

\* UnregisterService: for _, r := range Entity.URLs { UnregisterRoute },
\* returning at the first error with the routes removed so far
RECURSIVE UnregisterRoutes(_, _)
UnregisterRoutes(rr, urls) ==
    IF urls = <<>> THEN [routes |-> rr, err |-> Nil]
    ELSE LET r == UnregisterRoute(rr, Head(urls)) IN
         IF r.err # Nil THEN r
         ELSE UnregisterRoutes(r.routes, Tail(urls))

\* Service.Deployments of a stored service: the list of s2 is fixed, its one
\* instance i5 runs on node n3
ServiceDeployments(serviceID) ==
    IF serviceID = "s1" THEN Deployments ELSE <<Deployment("n3", "i5")>>

\* a check that is content with one removable deployment
AnyRemovable(ds) ==
    \E k \in 1..Len(ds) :
       ~nodes[ds[k].Node].IsAttached /\ ~instances[ds[k].Instance].IsAttached

\* UnregisterService: no deployment of the service fails isRemovable
AllRemovable(ds) ==
    \A k \in 1..Len(ds) :
       isRemovable(nodes[ds[k].Node].IsAttached,
                   instances[ds[k].Instance].IsAttached)

\* ServiceRegistry.RegisterService, for a service object with the given
\* Entity.ID and Entity.URLs
RegisterService(serviceID, urls, force) ==
    /\ pc = "idle"
    /\ IF Services[serviceID].registered /\ ~force
       THEN /\ ret' = ReturnError(ErrServiceAlreadyRegistered)
            /\ UNCHANGED <<routes, Services>>
       ELSE LET r == RegisterRoutes(routes, urls, serviceID, force) IN
            /\ routes' = r.routes
            /\ ret' = ReturnError(r.err)
            /\ Services' = IF r.err # Nil THEN Services
                           ELSE [Services EXCEPT ![serviceID] = ServiceObject(urls)]
    /\ UNCHANGED <<ext, nodes, instances, Deployments, wrr, pc, attempts, run,
                   service, req, w, backend, mut, walk, call>>

\* ServiceRegistry.UnregisterService
UnregisterService(serviceID, force) ==
    /\ pc = "idle"
    /\ IF ~Services[serviceID].registered
       THEN /\ ret' = ReturnError(ErrUnregisteredService)
            /\ UNCHANGED <<routes, Services>>
       ELSE IF ~force /\ ~AllRemovable(ServiceDeployments(serviceID))
       THEN /\ ret' = ReturnError(ErrServiceNotRemovable)
            /\ UNCHANGED <<routes, Services>>
       ELSE LET r == UnregisterRoutes(routes, Services[serviceID].URLs) IN
            /\ routes' = r.routes
            /\ ret' = ReturnError(r.err)
            /\ Services' = IF r.err # Nil THEN Services
                           ELSE [Services EXCEPT ![serviceID] = NoServiceObject]
    /\ UNCHANGED <<ext, nodes, instances, Deployments, wrr, pc, attempts, run,
                   service, req, w, backend, mut, walk, call>>

\* a caller's RouteRegistry.RegisterRoute
CallRegisterRoute(route, serviceID, force) ==
    /\ pc = "idle"
    /\ LET r == RegisterRoute(routes, route, serviceID, force) IN
       /\ routes' = r.routes
       /\ ret' = ReturnError(r.err)
    /\ UNCHANGED <<ext, nodes, instances, Deployments, wrr, pc, attempts, run,
                   service, req, w, backend, reg>>

\* ServiceRegistry.RegisterServiceURL
RegisterServiceURL(serviceID, url) == CallRegisterRoute(url, serviceID, FALSE)

\* ServiceRegistry.UnregisterServiceURL
UnregisterServiceURL(url) ==
    /\ pc = "idle"
    /\ LET r == UnregisterRoute(routes, url) IN
       /\ routes' = r.routes
       /\ ret' = ReturnError(r.err)
    /\ UNCHANGED <<ext, nodes, instances, Deployments, wrr, pc, attempts, run,
                   service, req, w, backend, reg>>

\* --- UpdateNodes, UpdateServices, UpdateInstances
\* the error an updater returns
ErrUpdater == "updater error"
\* panic(ErrInvalidUpdate)
ErrInvalidUpdate == "the provided update is invalid"

\* the orders in which a range over the map sr.Services can visit its keys
MapOrders(keys) ==
    { o \in [1..Cardinality(keys) -> keys] :
         \A j, k \in 1..Cardinality(keys) : j # k => o[j] # o[k] }

\* the nodes (instances) of a deployment list, in list order
NodesOf(ds) == [k \in 1..Len(ds) |-> ds[k].Node]
InstancesOf(ds) == [k \in 1..Len(ds) |-> ds[k].Instance]

\* the items the nested loops come by: for every service in map order, the
\* nodes (instances) of its deployments, or the service entity itself
RECURSIVE WalkItems(_, _)
WalkItems(op, order) ==
    IF order = <<>> THEN <<>>
    ELSE (CASE op = "UpdateNodes" -> NodesOf(ServiceDeployments(Head(order)))
            [] op = "UpdateInstances" ->
                  InstancesOf(ServiceDeployments(Head(order)))
            [] OTHER -> <<Head(order)>>)
         \o WalkItems(op, Tail(order))

\* a walk that goes on after an updater error and drops it
InvokeAll(items, failing) == [visited |-> items, err |-> Nil]

\* if err := updater(item); err != nil { return err }, item after item: the
\* items the updater was invoked on, and the error returned
RECURSIVE Invoke(_, _)
Invoke(items, failing) ==
    IF items = <<>> THEN [visited |-> <<>>, err |-> Nil]
    ELSE IF Head(items) \in failing
    THEN [visited |-> <<Head(items)>>, err |-> ErrUpdater]
    ELSE LET r == Invoke(Tail(items), failing) IN
         [visited |-> <<Head(items)>> \o r.visited, err |-> r.err]

\* ServiceRegistry.UpdateNodes / UpdateServices / UpdateInstances (op), with
\* a nil updater or one that fails on the items in failing; order is the
\* order of this range over the map
Walk(op, updaterIsNil, failing, order) ==
    /\ pc = "idle"
    /\ order \in MapOrders(RegisteredServices)
    /\ IF updaterIsNil
       THEN /\ walk' = [op |-> op, failing |-> {}, visited |-> <<>>,
                        err |-> ErrInvalidUpdate]
            /\ ret' = ReturnError(Panic)
       ELSE LET r == Invoke(WalkItems(op, order), failing) IN
            /\ walk' = [op |-> op, failing |-> failing, visited |-> r.visited,
                        err |-> r.err]
            /\ ret' = ReturnError(r.err)
    /\ UNCHANGED <<ext, nodes, instances, Deployments, wrr, pc, attempts, run, proxy,
                   Services, mut, call>>

UpdateNodes(updaterIsNil, failing, order) ==
    Walk("UpdateNodes", updaterIsNil, failing, order)
UpdateServices(updaterIsNil, failing, order) ==
    Walk("UpdateServices", updaterIsNil, failing, order)
UpdateInstances(updaterIsNil, failing, order) ==
    Walk("UpdateInstances", updaterIsNil, failing, order)

\* the instances (nodes) reachable through the registry's deployments
DeployedInstances == {Deployments[k].Instance : k \in 1..Len(Deployments)}
DeployedNodes == {Deployments[k].Node : k \in 1..Len(Deployments)}

\* an update that sets the flag of every deployed instance
SetAllInstancesAttached(i, value) ==
    /\ pc = "idle"
    /\ i \in DeployedInstances
    /\ instances[i].IsAttached # value
    /\ instances' = [j \in InstanceIDs |->
                        IF j \in DeployedInstances
                        THEN [instances[j] EXCEPT !.IsAttached = value]
                        ELSE instances[j]]
    /\ ret' = ReturnError(Nil)
    /\ UNCHANGED <<ext, nodes, Deployments, wrr, pc, attempts, run, proxy, reg>>

\* Dice.AttachInstance / Dice.DetachInstance: registry.Update sets IsAttached
\* of every deployed instance with the given ID
SetInstanceAttached(i, value) ==
    /\ pc = "idle"
    /\ i \in DeployedInstances
    /\ instances[i].IsAttached # value
    /\ instances' = [instances EXCEPT ![i].IsAttached = value]
    /\ ret' = ReturnError(Nil)
    /\ UNCHANGED <<ext, nodes, Deployments, wrr, pc, attempts, run, proxy, reg>>

AttachInstance(i) == SetInstanceAttached(i, TRUE)
DetachInstance(i) == SetInstanceAttached(i, FALSE)

\* Dice.AttachNode / Dice.DetachNode: synchronizeNode sets IsAttached of every
\* deployed node with the given ID
SetNodeAttached(n, value) ==
    /\ pc = "idle"
    /\ n \in DeployedNodes
    /\ nodes[n].IsAttached # value
    /\ nodes' = [nodes EXCEPT ![n].IsAttached = value]
    /\ ret' = ReturnError(Nil)
    /\ UNCHANGED <<ext, instances, Deployments, wrr, pc, attempts, run, proxy, reg>>

AttachNode(n) == SetNodeAttached(n, TRUE)
DetachNode(n) == SetNodeAttached(n, FALSE)

\* HealthCheck.checkServices in one step, on service s1: if it is enabled,
\* every deployed instance gets the result of its own probe
checkServices(probe) ==
    /\ pc = "idle"
    /\ DOMAIN probe = DeployedInstances
    /\ instances' = [i \in InstanceIDs |->
                        IF i \in DeployedInstances /\ service.IsEnabled
                        THEN [instances[i] EXCEPT !.IsAlive = probe[i]]
                        ELSE instances[i]]
    /\ ret' = ReturnError(Nil)
    /\ UNCHANGED <<ext, nodes, Deployments, wrr, pc, attempts, run, proxy, reg>>

\* ------------------------------------------------------------ health check
\* s.Entity.IsEnabled: the flag of s1 is service.IsEnabled, s2 stays enabled
IsEnabled(s) == IF s = "s1" THEN service.IsEnabled ELSE TRUE

\* Instance.IsAlive of every instance
AliveFlags == [i \in InstanceIDs |-> instances[i].IsAlive]

\* the outcomes of net.DialTimeout
Dials == {"ok", "timeout"}

\* healthcheck.New: nobody runs the loop, nothing waits on the stop channel.
\* loop is the position of RunPeriodically, mode the caller of the running
\* checkServices, order and deps what its two range loops still have to
\* visit, stop the position of the goroutine calling Stop(). visited, probed,
\* frozen and cut observe: the services the round has seen with their flag,
\* its dials, the alive flags when s1 was disabled last, and the number of
\* deployments the round had left when Stop() was called.
NewHealthCheck ==
    [loop |-> "off", mode |-> "none", order |-> <<>>, deps |-> <<>>,
     stop |-> "idle", visited |-> <<>>, probed |-> <<>>,
     frozen |-> [i \in InstanceIDs |-> FALSE], cut |-> -1]

\* pingInstance always reporting success
pingInstanceAlwaysAlive(dial) == TRUE

\* HealthCheck.pingInstance: false if the dial fails, true otherwise
pingInstance(dial) == dial = "ok"

\* the deployments checkServices still has to probe
RECURSIVE Remaining(_)
Remaining(order) ==
    IF order = <<>> THEN 0
    ELSE (IF IsEnabled(Head(order)) THEN Len(ServiceDeployments(Head(order)))
                                    ELSE 0)
         + Remaining(Tail(order))

\* RunPeriodically up to the select: the ticker is created
RunPeriodically ==
    /\ hc.loop = "off"
    /\ hc' = [hc EXCEPT !.loop = "select"]
    /\ UNCHANGED <<sched, proxy, reg, kv, out, written, tasks>>

\* entry into checkServices: the range over the map picks an order
beginCheckServices(mode, order) ==
    /\ hc.mode = "none"
    /\ hc' = [hc EXCEPT !.mode = mode, !.order = order, !.deps = <<>>,
                        !.visited = <<>>, !.probed = <<>>,
                        !.loop = IF mode = "tick" THEN "round" ELSE @]
    /\ UNCHANGED <<sched, proxy, reg, kv, out, written, tasks>>

\* case <-intervalTick.C: hc.checkServices()
tick(order) ==
    /\ hc.loop = "select"
    /\ beginCheckServices("tick", order)

\* RunManually: hc.checkServices() in the caller's goroutine
RunManually(order) == beginCheckServices("manual", order)

\* for _, s := range *hc.services { if s.Entity.IsEnabled { ... } }
rangeServices ==
    /\ hc.mode # "none"
    /\ hc.deps = <<>>
    /\ hc.order # <<>>
    /\ LET s == Head(hc.order) IN
       hc' = [hc EXCEPT !.order = Tail(@),
                        !.deps = IF IsEnabled(s) THEN ServiceDeployments(s)
                                                 ELSE <<>>,
                        !.visited = Append(@, [service |-> s,
                                               enabled |-> IsEnabled(s)])]
    /\ UNCHANGED <<sched, proxy, reg, kv, out, written, tasks>>

\* d.Instance.IsAlive = hc.pingInstance(d.Node, d.Instance)
rangeDeployments(dial) ==
    /\ hc.mode # "none"
    /\ hc.deps # <<>>
    /\ LET d == Head(hc.deps) IN
       /\ instances' = [instances EXCEPT
                           ![d.Instance].IsAlive = pingInstance(dial)]
       /\ hc' = [hc EXCEPT !.deps = Tail(@),
                           !.probed = Append(@, [instance |-> d.Instance,
                                                 dial |-> dial])]
    /\ UNCHANGED <<nodes, Deployments, wrr, pc, attempts, ret, run, proxy, reg,
                   kv, out, written, tasks>>

\* checkServices returns: the loop is back at its select, RunManually
\* returns nil
returnCheckServices ==
    /\ hc.mode # "none"
    /\ hc.deps = <<>>
    /\ hc.order = <<>>
    /\ hc' = [hc EXCEPT !.mode = "none",
                        !.loop = IF hc.mode = "tick" THEN "select" ELSE @]
    /\ ret' = IF hc.mode = "manual" THEN ReturnError(Nil) ELSE ret
    /\ UNCHANGED <<nodes, instances, Deployments, wrr, pc, attempts, run,
                   proxy, reg, kv, out, written, tasks>>

\* a send on a buffered channel: the sender goes on at once
sendBuffered == "returned"

\* hc.stop <- true on make(chan bool): the sender waits for the receiver
send == "sending"

\* Stop up to its send: hc.stop <- true blocks until the loop receives
Stop ==
    /\ hc.stop = "idle"
    /\ hc' = [hc EXCEPT !.stop = send,
                        !.cut = IF hc.loop = "round"
                                THEN Len(hc.deps) + Remaining(hc.order)
                                ELSE -1]
    /\ UNCHANGED <<sched, proxy, reg, kv, out, written, tasks>>

\* case <-hc.stop: break healthcheck; the send completes, Stop and
\* RunPeriodically return nil
receiveStop ==
    /\ hc.loop = "select"
    /\ hc.stop = "sending"
    /\ hc' = [hc EXCEPT !.loop = "returned", !.stop = "returned"]
    /\ UNCHANGED <<sched, proxy, reg, kv, out, written, tasks>>

\* Dice.EnableService / Dice.DisableService: registry.Update sets
\* Entity.IsEnabled of the service with the given ID
SetServiceEnabled(s, value) ==
    /\ s = "s1"
    /\ Services[s].registered
    /\ service.IsEnabled # value
    /\ service' = [service EXCEPT !.IsEnabled = value]
    /\ hc' = [hc EXCEPT !.frozen = IF value THEN @ ELSE AliveFlags]
    /\ UNCHANGED <<sched, routes, req, w, backend, reg, kv, out, written, tasks>>

EnableService(s) == SetServiceEnabled(s, TRUE)
DisableService(s) == SetServiceEnabled(s, FALSE)

\* -------------------------------------------------------------------- proxy
Hosts == {"a.example.com", "b.example.com", "c.example.com"}
NoService == "none"
\* the route registry: a resolves to the registered service s1, b to s2,
\* which is not in the service registry, and c is not registered
Routes ==
    [h \in Hosts |->
        CASE h = "a.example.com" -> "s1"
          [] h = "b.example.com" -> "s2"
          [] OTHER -> NoService]

NoRequest == [hpc |-> "none", host |-> "none", err |-> "nil"]
NewResponseWriter == [status |-> 0, body |-> <<>>]
NoBackend == [dialed |-> FALSE, response |-> "nil", read |-> 0]

StatusOK == 200
StatusInternalServerError == 500
StatusServiceUnavailable == 503

\* ServiceRegistry.LookupService: the second return value
LookupService(host) ==
    /\ routes[host] # NoService
    /\ routes[host] \in RegisteredServices

\* http.ResponseWriter.WriteHeader: only the first status line counts
WriteHeader(rw, status) ==
    IF rw.status = 0 THEN [rw EXCEPT !.status = status] ELSE rw

\* http.ResponseWriter.Write of one piece of the body; ok: the write succeeds
Write(rw, piece, ok) ==
    LET h == WriteHeader(rw, StatusOK) IN
    IF ok THEN [h EXCEPT !.body = Append(@, piece)] ELSE h

\* Proxy.displayError
displayError(rw, status) == Write(WriteHeader(rw, status), "error page", TRUE)

\* a guard that dispatches to disabled services
UnavailableIgnoringEnabled(host) ==
    ~LookupService(host) \/ ~service.SchedulerSet

\* handleRequest: the guard of the first 503
Unavailable(host) ==
    ~LookupService(host) \/ ~service.IsEnabled \/ ~service.SchedulerSet

\* handleRequest, up to the call of service.Scheduler.Next()
handleRequest(host) ==
    /\ pc = "idle"
    /\ req.hpc = "none"
    /\ wrr.currentIndex < MaxIndex
    /\ IF Unavailable(host)
       THEN /\ w' = displayError(w, StatusServiceUnavailable)
            /\ req' = [req EXCEPT !.hpc = "done", !.host = host]
            /\ UNCHANGED <<pc, attempts, ret>>
       ELSE /\ Call
            /\ req' = [req EXCEPT !.hpc = "next", !.host = host]
    /\ UNCHANGED <<ext, nodes, instances, Deployments, wrr, run, routes, service,
                   backend, reg>>

\* handleRequest after Next() has returned: the second 503, or dialBackend.
\* NewRequest or RoundTrip may fail; only RoundTrip contacts the upstream.
afterNext(dial) ==
    /\ req.hpc = "next"
    /\ pc = "idle"
    /\ IF ret.kind = Panic
       THEN /\ req' = [req EXCEPT !.hpc = "panicked"]
            /\ UNCHANGED <<w, backend>>
       ELSE IF ret.kind # "instance"
       THEN /\ w' = displayError(w, StatusServiceUnavailable)
            /\ req' = [req EXCEPT !.hpc = "done"]
            /\ UNCHANGED backend
       ELSE IF dial = "NewRequest fails"
       THEN /\ w' = displayError(w, StatusInternalServerError)
            /\ req' = [req EXCEPT !.hpc = "stream", !.err = "dial"]
            /\ UNCHANGED backend
       ELSE IF dial = "RoundTrip fails"
       THEN /\ w' = displayError(w, StatusInternalServerError)
            /\ req' = [req EXCEPT !.hpc = "stream", !.err = "dial"]
            /\ backend' = [backend EXCEPT !.dialed = TRUE]
       ELSE /\ req' = [req EXCEPT !.hpc = "stream"]
            /\ backend' = [backend EXCEPT !.dialed = TRUE, !.response = "open"]
            /\ UNCHANGED w
    /\ UNCHANGED <<ext, sched, routes, service, reg>>

\* streamResponse: one iteration of the loop. The read returns length bytes
\* (0 or one chunk) and err; the write of the chunk succeeds iff writeOK.
streamResponse(length, err, writeOK) ==
    /\ req.hpc = "stream"
    /\ IF backend.response = "nil"
       THEN \* response.Body of a nil response
            /\ req' = [req EXCEPT !.hpc = "panicked"]
            /\ UNCHANGED <<w, backend>>
       ELSE /\ backend.read + length <= MaxChunks
            /\ backend.read = MaxChunks => err # "nil"
            /\ backend' = [backend EXCEPT !.read = @ + length]
            /\ IF err \notin {"nil", "EOF"}
               THEN /\ req' = [req EXCEPT !.hpc = "streamed", !.err = err]
                    /\ UNCHANGED w
               ELSE IF length > 0 /\ ~writeOK
               THEN \* return err: the read's error, not writeErr
                    /\ w' = Write(w, "chunk", FALSE)
                    /\ req' = [req EXCEPT !.hpc = "streamed", !.err = err]
               ELSE /\ w' = IF length > 0 THEN Write(w, "chunk", TRUE) ELSE w
                    /\ req' = IF err = "EOF"
                              THEN [req EXCEPT !.hpc = "streamed", !.err = "nil"]
                              ELSE req
    /\ UNCHANGED <<ext, sched, routes, service, reg>>

\* handleRequest after streamResponse has returned
afterStream ==
    /\ req.hpc = "streamed"
    /\ w' = IF req.err # "nil"
            THEN displayError(w, StatusInternalServerError)
            ELSE w
    /\ req' = [req EXCEPT !.hpc = "done"]
    /\ UNCHANGED <<ext, sched, routes, service, backend, reg>>

\* the handler has returned (or net/http has recovered its panic): the
\* connection is free for the next request
finish ==
    /\ req.hpc \in {"done", "panicked"}
    /\ req' = NoRequest
    /\ w' = NewResponseWriter
    /\ backend' = NoBackend
    /\ UNCHANGED <<ext, sched, routes, service, reg>>

\* -------------------------------------------------------------------- store
\* entity.Node as the store sees it: ID, Name and the uint8 Weight
StoreNames == {"test-node-1", "test-node-2"}
StoreWeights == {0, 255}
StoreNode == [ID : NodeIDs, Name : StoreNames, Weight : StoreWeights]

\* a nil *entity.Node, and the nil a bucket returns for a missing key
NoNode == [ID |-> "nil", Name |-> "nil", Weight |-> 0]
NoValue == [json |-> "null"]

\* json.Marshal / json.Unmarshal of a node: the fields under their JSON keys
Marshal(node) ==
    [json |-> "object", id |-> node.ID, name |-> node.Name,
     weight |-> node.Weight]
Unmarshal(value) ==
    [ID |-> value.id, Name |-> value.name, Weight |-> value.weight % 256]

\* NewKV: setup has created the buckets, the node bucket is empty
EmptyBucket == [key \in NodeIDs |-> NoValue]

\* KVStore.set: b.Put(key, value)
set(bucket, key, value) == [bucket EXCEPT ![key] = value]

\* KVStore.get: b.Get(key), nil if the key is missing
get(bucket, key) == bucket[key]

\* a delete leaving the bucket as it is
deleteNothing(bucket, key) == bucket

\* KVStore.delete: b.Delete(key)
delete(bucket, key) == [bucket EXCEPT ![key] = NoValue]

\* KVStore.getAll: b.ForEach appends the values in the order of their keys
KeyOrder == <<"n1", "n2", "n3">>
RECURSIVE getAllFrom(_, _)
getAllFrom(bucket, keys) ==
    IF keys = <<>> THEN <<>>
    ELSE (IF bucket[Head(keys)] = NoValue THEN <<>>
                                          ELSE <<bucket[Head(keys)]>>)
         \o getAllFrom(bucket, Tail(keys))
getAll(bucket) == getAllFrom(bucket, KeyOrder)

\* the NodeFilter functions of Dice.findNode and of the tests, and the nil
\* filter, which FindNodes takes as accepting every node
Filters ==
    {<<"nil", "">>, <<"Weight", "255">>}
       \cup {<<"ID", n>> : n \in NodeIDs}
       \cup {<<"Name", x>> : x \in StoreNames}
Filter(filter, node) ==
    CASE filter[1] = "nil"    -> TRUE
      [] filter[1] = "ID"     -> node.ID = filter[2]
      [] filter[1] = "Name"   -> node.Name = filter[2]
      [] filter[1] = "Weight" -> node.Weight = 255

\* what a store or factory call returned; nothing has been called yet
NoResult == [op |-> "none"]

\* KVStore.CreateNode: the marshalled node is put under node.ID
CreateNode(node) ==
    /\ kv' = set(kv, node.ID, Marshal(node))
    /\ out' = [op |-> "CreateNode", err |-> Nil]
    /\ written' = [written EXCEPT ![node.ID] = node]
    /\ UNCHANGED <<sched, proxy, reg, hc, tasks>>

\* KVStore.UpdateNode: kv.CreateNode(source); the callers pass source.ID as id
UpdateNode(id, source) ==
    /\ kv' = set(kv, source.ID, Marshal(source))
    /\ out' = [op |-> "UpdateNode", err |-> Nil]
    /\ written' = [written EXCEPT ![id] = source]
    /\ UNCHANGED <<sched, proxy, reg, hc, tasks>>

\* KVStore.DeleteNode
DeleteNode(id) ==
    /\ kv' = delete(kv, id)
    /\ out' = [op |-> "DeleteNode", err |-> Nil]
    /\ written' = [written EXCEPT ![id] = NoNode]
    /\ UNCHANGED <<sched, proxy, reg, hc, tasks>>

\* KVStore.FindNode: nil and no error if the bucket has no value for id
FindNode(id) ==
    /\ LET value == get(kv, id) IN
       out' = [op |-> "FindNode", id |-> id, err |-> Nil,
               node |-> IF value = NoValue THEN NoNode ELSE Unmarshal(value)]
    /\ UNCHANGED <<sched, proxy, reg, hc, kv, written, tasks>>

\* the loop of FindNodes: nodes[i] = &node for the values the filter accepts,
\* the other entries of make([]*entity.Node, len(values)) stay nil
FoundNodes(values, filter) ==
    [i \in 1..Len(values) |->
        IF Filter(filter, Unmarshal(values[i]))
        THEN Unmarshal(values[i]) ELSE NoNode]

\* KVStore.FindNodes: a nil slice if the bucket is empty
FindNodes(filter) ==
    /\ LET values == getAll(kv) IN
       out' = [op |-> "FindNodes", filter |-> filter, err |-> Nil,
               nodes |-> IF Len(values) = 0 THEN <<>>
                         ELSE FoundNodes(values, filter)]
    /\ UNCHANGED <<sched, proxy, reg, hc, kv, written, tasks>>

\* ---------------------------------------------------------------- factories
LeastConnectionBalancing == "least_connection"
RandomBalancing == "random"
RoundRobinBalancing == "round_robin"
WeightedRoundRobinBalancing == "weighted_round_robin"

\* the BalancingMethod strings a configuration can hold
BalancingMethods ==
    {LeastConnectionBalancing, RandomBalancing, RoundRobinBalancing,
     WeightedRoundRobinBalancing, "", "fastest"}

ErrUnsupportedMethod == "balancing method is not supported"
\* fmt.Errorf("invalid balancing method: %v", method): the text before the
\* method's name
invalidBalancingMethodErr(method) == "invalid balancing method"

\* scheduler.New of the registry-based revision
New(method) ==
    IF method = WeightedRoundRobinBalancing
    THEN [scheduler |-> "WeightedRoundRobin", err |-> Nil]
    ELSE [scheduler |-> Nil, err |-> ErrUnsupportedMethod]

\* scheduler.NewScheduler: the three unimplemented methods panic
NewScheduler(method) ==
    CASE method \in {LeastConnectionBalancing, RandomBalancing,
                     RoundRobinBalancing} ->
            [scheduler |-> Nil, err |-> Panic]
      [] method = WeightedRoundRobinBalancing ->
            [scheduler |-> "WeightedRoundRobin", err |-> Nil]
      [] OTHER ->
            [scheduler |-> Nil, err |-> invalidBalancingMethodErr(method)]

\* a service is built: one of the factories is called with its method
CallNew(method) ==
    /\ out' = [op |-> "New", method |-> method,
               scheduler |-> New(method).scheduler, err |-> New(method).err]
    /\ UNCHANGED <<sched, proxy, reg, hc, kv, written, tasks>>

CallNewScheduler(method) ==
    /\ out' = [op |-> "NewScheduler", method |-> method,
               scheduler |-> NewScheduler(method).scheduler,
               err |-> NewScheduler(method).err]
    /\ UNCHANGED <<sched, proxy, reg, hc, kv, written, tasks>>

\* ------------------------------------------------------------------- Init
\* the topology of TestWeightedRoundRobin_Next
TestNodes ==
    [n \in NodeIDs |->
        CASE n = "n1" -> [Weight |-> 2, IsAttached |-> TRUE, IsAlive |-> TRUE]
          [] n = "n2" -> [Weight |-> 1, IsAttached |-> TRUE, IsAlive |-> TRUE]
          [] OTHER    -> [Weight |-> 1, IsAttached |-> FALSE, IsAlive |-> TRUE]]

TestInstances ==
    [i \in InstanceIDs |->
        CASE i = "i2" -> [IsAttached |-> FALSE, IsAlive |-> TRUE]
          [] i = "i4" -> [IsAttached |-> TRUE, IsAlive |-> FALSE]
          [] OTHER    -> [IsAttached |-> TRUE, IsAlive |-> TRUE]]

TestDeployments ==
    << Deployment("n1", "i1"), Deployment("n1", "i2"), Deployment("n2", "i3"),
       Deployment("n2", "i4"), Deployment("n3", "i5") >>

\* entity.NewNode / entity.NewInstance: IsAlive starts false
UnusedNode == [Weight |-> 0, IsAttached |-> FALSE, IsAlive |-> FALSE]
UnusedInstance == [IsAttached |-> FALSE, IsAlive |-> FALSE]

DeploymentLists ==
    UNION { [1..k -> {Deployment(NodeOf(i), i) : i \in PoolInstances}]
            : k \in 0..MaxDeps }

\* a node created by entity.NewNode: IsAlive is false, and no code sets it
CreatedNode == {n \in Node : ~n.IsAlive}

\* any topology over the pool, its nodes drawn from NodeSet
PoolInit(NodeSet) ==
    /\ \E f \in [PoolNodes -> NodeSet] :
          nodes = [n \in NodeIDs |-> IF n \in PoolNodes THEN f[n] ELSE UnusedNode]
    /\ \E g \in [PoolInstances -> Instance] :
          instances = [i \in InstanceIDs |->
                          IF i \in PoolInstances THEN g[i] ELSE UnusedInstance]
    /\ Deployments \in DeploymentLists

TestInit ==
    /\ nodes = TestNodes
    /\ instances = TestInstances
    /\ Deployments = TestDeployments

\* the scheduler as buildRegistryService creates it, and no call running
InitScheduler ==
    /\ wrr = newWeightedRoundRobin(Deployments)
    /\ pc = "idle"
    /\ attempts = 0
    /\ ret = NoReturn
    /\ run = 0

\* no request is being handled
InitProxyIdle ==
    /\ routes = Routes
    /\ req = NoRequest
    /\ w = NewResponseWriter
    /\ backend = NoBackend

\* the service registry after start-up: s1 is stored with its URL, s2 is not
\* stored
InitServices ==
    /\ Services = [s \in ServiceIDs |->
                      IF s = "s1" THEN ServiceObject(<<"a.example.com">>)
                                  ELSE NoServiceObject]
    /\ mut = NoMutation
    /\ walk = NoWalk
    /\ call = NoCall

\* no health check is running, the store is empty, nothing has been called
InitExt ==
    /\ hc = NewHealthCheck
    /\ kv = EmptyBucket
    /\ out = NoResult
    /\ written = [n \in NodeIDs |-> NoNode]
    /\ tasks = NoTasks

Init ==
    /\ PoolInit(CreatedNode)
    /\ InitScheduler
    /\ InitProxyIdle
    /\ InitServices
    /\ service = [IsEnabled |-> TRUE, SchedulerSet |-> TRUE]
    /\ InitExt

InitTest ==
    /\ PoolInit(Node) \/ TestInit
    /\ InitScheduler
    /\ InitProxyIdle
    /\ InitServices
    /\ service = [IsEnabled |-> TRUE, SchedulerSet |-> TRUE]
    /\ InitExt

\* the scheduler test: a fixed topology, a fresh scheduler, Next() in a loop
NextTest == TestNextCall \/ Lookup
SpecTest == InitTest /\ [][NextTest]_vars

\* the engine in sequential use: scheduler calls and registry mutations
Next ==
    \/ NextCall
    \/ Lookup
    \/ \E i \in PoolInstances, s \in ServiceIDs :
          RegisterDeployment(i, s) /\ UNCHANGED call
    \/ \E i \in PoolInstances, s \in ServiceIDs, an, ai, force \in BOOLEAN :
          UnregisterDeployment(i, s, an, ai, force) /\ UNCHANGED call
    \/ \E i \in PoolInstances : AttachInstance(i)
    \/ \E i \in PoolInstances : DetachInstance(i)
    \/ \E n \in PoolNodes : AttachNode(n)
    \/ \E n \in PoolNodes : DetachNode(n)
    \/ \E probe \in [DeployedInstances -> BOOLEAN] : checkServices(probe)
Spec == Init /\ [][Next]_vars

\* lists over the pool, duplicates included, one longer than registrations
\* make them here
LongDeploymentLists ==
    UNION { [1..k -> {Deployment(NodeOf(i), i) : i \in PoolInstances}]
            : k \in 0..(MaxDeps + 1) }

\* the registry of service s1 with any attach flags on the pool's entities
InitDeployments ==
    /\ \E f \in [PoolNodes -> {n \in CreatedNode : n.Weight = 1}] :
          nodes = [n \in NodeIDs |-> IF n \in PoolNodes THEN f[n] ELSE UnusedNode]
    /\ \E g \in [PoolInstances -> {x \in Instance : ~x.IsAlive}] :
          instances = [i \in InstanceIDs |->
                          IF i \in PoolInstances THEN g[i] ELSE UnusedInstance]
    /\ Deployments \in LongDeploymentLists
    /\ InitScheduler
    /\ InitProxyIdle
    /\ InitServices
    /\ service = [IsEnabled |-> TRUE, SchedulerSet |-> TRUE]
    /\ InitExt

\* deployments are registered and unregistered, one call after the other
NextDeployments ==
    \/ \E i \in PoolInstances, s \in ServiceIDs : CallRegisterDeployment(i, s)
    \/ \E i \in PoolInstances, s \in ServiceIDs, an, ai, force \in BOOLEAN :
          CallUnregisterDeployment(i, s, an, ai, force)
SpecDeployments == InitDeployments /\ [][NextDeployments]_vars

\* the URL lists of the service objects that are registered
URLHosts == {"a.example.com", "b.example.com"}
URLLists == UNION { [1..k -> URLHosts] : k \in 0..MaxURLs }

\* the deployments of service s1 while services come and go
RegistryDeployments == <<Deployment("n2", "i3"), Deployment("n1", "i1")>>

\* NewServiceRegistry: no service and no route; the service object s1 has
\* been built with its deployments, i3 on n2 detached
InitRegistry ==
    /\ \E n, i \in BOOLEAN :
          /\ nodes = [x \in NodeIDs |->
                         IF x = "n1" THEN [UnusedNode EXCEPT !.IsAttached = n]
                                     ELSE UnusedNode]
          /\ instances = [x \in InstanceIDs |->
                             IF x = "i1"
                             THEN [UnusedInstance EXCEPT !.IsAttached = i]
                             ELSE UnusedInstance]
    /\ Deployments = RegistryDeployments
    /\ InitScheduler
    /\ routes = [h \in Hosts |-> NoService]
    /\ req = NoRequest
    /\ w = NewResponseWriter
    /\ backend = NoBackend
    /\ service = [IsEnabled |-> TRUE, SchedulerSet |-> TRUE]
    /\ Services = [s \in ServiceIDs |-> NoServiceObject]
    /\ mut = NoMutation
    /\ walk = NoWalk
    /\ call = NoCall
    /\ InitExt

\* services and routes are registered and unregistered
NextRegistry ==
    \/ \E s \in ServiceIDs, urls \in URLLists, force \in BOOLEAN :
          RegisterService(s, urls, force)
    \/ \E s \in ServiceIDs, force \in BOOLEAN : UnregisterService(s, force)
    \/ \E h \in Hosts, s \in ServiceIDs, force \in BOOLEAN :
          CallRegisterRoute(h, s, force)
    \/ \E s \in ServiceIDs, h \in Hosts : RegisterServiceURL(s, h)
    \/ \E h \in Hosts : UnregisterServiceURL(h)
SpecRegistry == InitRegistry /\ [][NextRegistry]_vars

\* a registry holding any of the two services, s1 with any list over the pool
InitUpdate ==
    /\ nodes = TestNodes
    /\ instances = TestInstances
    /\ Deployments \in DeploymentLists
    /\ InitScheduler
    /\ InitProxyIdle
    /\ service = [IsEnabled |-> TRUE, SchedulerSet |-> TRUE]
    /\ \E stored \in SUBSET ServiceIDs :
          Services = [s \in ServiceIDs |->
                         IF s \notin stored THEN NoServiceObject
                         ELSE IF s = "s1" THEN ServiceObject(<<"a.example.com">>)
                         ELSE ServiceObject(<<"b.example.com">>)]
    /\ mut = NoMutation
    /\ walk = NoWalk
    /\ call = NoCall
    /\ InitExt

\* the synchronisation walks over the registry, one after the other
NextUpdate ==
    \/ \E nil \in BOOLEAN, failing \in SUBSET NodeIDs :
          \E order \in MapOrders(RegisteredServices) :
             UpdateNodes(nil, failing, order)
    \/ \E nil \in BOOLEAN, failing \in SUBSET ServiceIDs :
          \E order \in MapOrders(RegisteredServices) :
             UpdateServices(nil, failing, order)
    \/ \E nil \in BOOLEAN, failing \in SUBSET {"i1", "i3", "i5"} :
          \E order \in MapOrders(RegisteredServices) :
             UpdateInstances(nil, failing, order)
SpecUpdate == InitUpdate /\ [][NextUpdate]_vars

\* a Next() call of one goroutine beside the deployment mutations of another
InitConc ==
    /\ nodes = TestNodes
    /\ instances = TestInstances
    /\ Deployments \in DeploymentLists
    /\ InitScheduler
    /\ InitProxyIdle
    /\ InitServices
    /\ service = [IsEnabled |-> TRUE, SchedulerSet |-> TRUE]
    /\ InitExt

NextConc ==
    \/ NextCall
    \/ Lookup
    \/ \E i \in PoolInstances, s \in ServiceIDs : beginRegisterDeployment(i, s)
    \/ \E i \in PoolInstances, s \in ServiceIDs, an, ai, force \in BOOLEAN :
          beginUnregisterDeployment(i, s, an, ai, force)
    \/ writeSlot
    \/ shrinkSlice
    \/ updateScheduler
SpecConc == InitConc /\ [][NextConc]_vars

\* the service deploys a contiguous part of the test topology
ProxyDeploymentLists ==
    { SubSeq(TestDeployments, a, b) :
         a \in 1..Len(TestDeployments), b \in 0..Len(TestDeployments) }

InitProxy ==
    /\ nodes = TestNodes
    /\ instances = TestInstances
    /\ Deployments \in ProxyDeploymentLists
    /\ InitScheduler
    /\ InitProxyIdle
    /\ InitServices
    /\ service \in [IsEnabled : BOOLEAN, SchedulerSet : BOOLEAN]
    /\ InitExt

\* the proxy handling one request after the other
NextProxy ==
    \/ \E host \in Hosts : handleRequest(host)
    \/ Lookup
    \/ \E dial \in {"NewRequest fails", "RoundTrip fails", "ok"} : afterNext(dial)
    \/ \E length \in 0..1, err \in {"nil", "EOF", "read error"}, writeOK \in BOOLEAN :
          streamResponse(length, err, writeOK)
    \/ afterStream
    \/ finish
SpecProxy == InitProxy /\ [][NextProxy]_vars

\* the health check beside the control plane: s1 is stored, enabled or not,
\* with any list over the pool; s2 is stored or not. A service that starts
\* disabled was disabled with the alive flags it starts with.
InitHealth ==
    /\ nodes = TestNodes
    /\ instances = TestInstances
    /\ Deployments \in DeploymentLists
    /\ InitScheduler
    /\ InitProxyIdle
    /\ service \in [IsEnabled : BOOLEAN, SchedulerSet : {TRUE}]
    /\ \E stored \in {{"s1"}, {"s1", "s2"}} :
          Services = [s \in ServiceIDs |->
                         IF s \notin stored THEN NoServiceObject
                         ELSE IF s = "s1" THEN ServiceObject(<<"a.example.com">>)
                         ELSE ServiceObject(<<"b.example.com">>)]
    /\ mut = NoMutation
    /\ walk = NoWalk
    /\ call = NoCall
    /\ hc = [NewHealthCheck EXCEPT !.frozen = AliveFlags]
    /\ kv = EmptyBucket
    /\ out = NoResult
    /\ written = [n \in NodeIDs |-> NoNode]
    /\ tasks = NoTasks

\* the periodic loop, manual runs, the goroutine calling Stop(), and the
\* goroutine enabling and disabling s1; one checkServices runs at a time
NextHealth ==
    \/ RunPeriodically
    \/ \E order \in MapOrders(RegisteredServices) : tick(order)
    \/ \E order \in MapOrders(RegisteredServices) : RunManually(order)
    \/ rangeServices
    \/ \E dial \in Dials : rangeDeployments(dial)
    \/ returnCheckServices
    \/ Stop
    \/ receiveStop
    \/ EnableService("s1")
    \/ DisableService("s1")
SpecHealth == InitHealth /\ [][NextHealth]_vars

\* every dial returns (net.DialTimeout), so a running checkServices goes on;
\* a select with several ready cases picks one at random, so a case that is
\* ready again and again is taken
FairHealth ==
    /\ WF_vars(rangeServices)
    /\ WF_vars(\E dial \in Dials : rangeDeployments(dial))
    /\ WF_vars(returnCheckServices)
    /\ SF_vars(receiveStop)
SpecHealthFair == InitHealth /\ [][NextHealth]_vars /\ FairHealth

\* the registry of s1 with every pool instance attached and alive
InitAttach ==
    /\ nodes = TestNodes
    /\ instances = [i \in InstanceIDs |->
                      IF i \in PoolInstances
                      THEN [IsAttached |-> TRUE, IsAlive |-> TRUE]
                      ELSE UnusedInstance]
    /\ Deployments \in LongDeploymentLists
    /\ InitScheduler
    /\ InitProxyIdle
    /\ InitServices
    /\ service = [IsEnabled |-> TRUE, SchedulerSet |-> TRUE]
    /\ InitExt

\* the control plane attaches, detaches, enables and disables; health checks
\* run in between
NextAttach ==
    \/ \E i \in PoolInstances : AttachInstance(i)
    \/ \E i \in PoolInstances : DetachInstance(i)
    \/ \E n \in PoolNodes : AttachNode(n)
    \/ \E n \in PoolNodes : DetachNode(n)
    \/ \E probe \in [DeployedInstances -> BOOLEAN] : checkServices(probe)
    \/ EnableService("s1")
    \/ DisableService("s1")
SpecAttach == InitAttach /\ [][NextAttach]_vars

\* the control plane on an empty store
InitCore ==
    /\ TestInit
    /\ InitScheduler
    /\ InitProxyIdle
    /\ InitServices
    /\ service = [IsEnabled |-> TRUE, SchedulerSet |-> TRUE]
    /\ InitExt

\* nodes are created, updated, looked up and deleted, and services are built
\* with a scheduler for their balancing method
NextCore ==
    \/ \E node \in StoreNode : CreateNode(node)
    \/ \E source \in StoreNode : UpdateNode(source.ID, source)
    \/ \E id \in NodeIDs : DeleteNode(id)
    \/ \E id \in NodeIDs : FindNode(id)
    \/ \E filter \in Filters : FindNodes(filter)
    \/ \E method \in BalancingMethods : CallNew(method)
    \/ \E method \in BalancingMethods : CallNewScheduler(method)
SpecCore == InitCore /\ [][NextCore]_vars

\* two request goroutines on the scheduler of a fixed topology: every pool
\* instance is attached and alive, n1 has weight 2 and n2 weight 1
InitRace ==
    /\ nodes = TestNodes
    /\ instances = TestInstances
    /\ Deployments \in DeploymentLists
    /\ InitScheduler
    /\ InitProxyIdle
    /\ InitServices
    /\ service = [IsEnabled |-> TRUE, SchedulerSet |-> TRUE]
    /\ InitExt

NextRace ==
    \/ \E t \in Tasks : raceCall(t)
    \/ \E t \in Tasks : raceRead(t)
    \/ \E t \in Tasks, fresh \in BOOLEAN : raceWrite(t, fresh)
SpecRace == InitRace /\ [][NextRace]_vars

\* one caller after the other on a fresh scheduler, for as long as it takes
\* the cursor to pass the largest int
NextWrap == AnyCall \/ Lookup
SpecWrap == InitRace /\ [][NextWrap]_vars

\* the registry of s1, with or without a scheduler, and any attach flags
InitUnset ==
    /\ \E f \in [PoolNodes -> {n \in CreatedNode : n.Weight = 1}] :
          nodes = [n \in NodeIDs |-> IF n \in PoolNodes THEN f[n] ELSE UnusedNode]
    /\ \E g \in [PoolInstances -> {x \in Instance : ~x.IsAlive}] :
          instances = [i \in InstanceIDs |->
                          IF i \in PoolInstances THEN g[i] ELSE UnusedInstance]
    /\ Deployments \in DeploymentLists
    /\ InitScheduler
    /\ InitProxyIdle
    /\ InitServices
    /\ service \in [IsEnabled : {TRUE}, SchedulerSet : BOOLEAN]
    /\ InitExt

SpecUnset == InitUnset /\ [][NextDeployments]_vars

\* ------------------------------------------------------------------ claims
\* the deployment is eligible: instance attached and alive, node weight >= 1
Eligible(d) ==
    /\ instances[d.Instance].IsAttached
    /\ instances[d.Instance].IsAlive
    /\ nodes[d.Node].Weight >= 1

RECURSIVE Repeat(_, _)
Repeat(x, k) == IF k = 0 THEN <<>> ELSE <<x>> \o Repeat(x, k - 1)

\* one round over the list: every eligible deployment, in list order, as
\* many times in a row as its node weighs
RECURSIVE Round(_)
Round(ds) ==
    IF ds = <<>> THEN <<>>
    ELSE (IF Eligible(Head(ds)) THEN Repeat(Head(ds), nodes[Head(ds).Node].Weight)
                                ELSE <<>>) \o Round(Tail(ds))

TestAssertions == <<"i1", "i1", "i3", "i5">>

NextReturned == pc = "idle" /\ ret.kind \in {"instance", ErrNoInstance, Panic}

\* C2: Next() returns an error only if no deployment of the current list is
\* eligible.
C2_ErrorOnlyIfNoneEligible ==
    (NextReturned /\ ret.kind # "instance") =>
       \A k \in 1..Len(wrr.deployments) : ~Eligible(wrr.deployments[k])

\* C3: the node of an instance returned by Next() is attached and alive.
C3_NodeAttachedAndAlive ==
    (NextReturned /\ ret.kind = "instance") =>
       nodes[ret.d.Node].IsAttached /\ nodes[ret.d.Node].IsAlive

\* C4: an instance returned by Next() is attached and alive.
C4_InstanceAttachedAndAlive ==
    (NextReturned /\ ret.kind = "instance") =>
       instances[ret.d.Instance].IsAttached /\ instances[ret.d.Instance].IsAlive

\* C4 witness: Next() has returned an instance after the cursor has wrapped
\* around a list that holds a detached or dead instance
C4_Witness ==
    /\ NextReturned
    /\ ret.kind = "instance"
    /\ wrr.currentIndex >= Len(wrr.deployments)
    /\ \E k \in 1..Len(wrr.deployments) :
          ~instances[wrr.deployments[k].Instance].IsAlive

\* C5: Next() never returns a deployment whose node has weight 0; if it is
\* the only deployment, Next() returns the error.
C5_ZeroWeightNeverReturned ==
    NextReturned =>
       /\ ret.kind = "instance" => nodes[ret.d.Node].Weight # 0
       /\ (Len(wrr.deployments) = 1 /\ nodes[wrr.deployments[1].Node].Weight = 0)
             => ret.kind = ErrNoInstance

\* C5 witness: Next() has failed on a list whose only deployment is an
\* attached, alive instance on a node of weight 0, after earlier selections
C5_Witness ==
    /\ NextReturned
    /\ ret.kind = ErrNoInstance
    /\ Len(wrr.deployments) = 1
    /\ nodes[wrr.deployments[1].Node].Weight = 0
    /\ instances[wrr.deployments[1].Instance].IsAttached
    /\ instances[wrr.deployments[1].Instance].IsAlive
    /\ wrr.currentIndex >= 2

DetachedOrDead(d) ==
    ~(instances[d.Instance].IsAttached /\ instances[d.Instance].IsAlive)

AllDetachedOrDead ==
    /\ wrr.deployments # <<>>
    /\ \A k \in 1..Len(wrr.deployments) : DetachedOrDead(wrr.deployments[k])

C7_EmptyListIsError ==
    (NextReturned /\ wrr.deployments = <<>>) => ret.kind = ErrNoInstance

\* the request being handled falls under one of the four 503 cases
Fallback ==
    /\ req.hpc # "none"
    /\ \/ routes[req.host] \notin RegisteredServices
       \/ ~service.IsEnabled
       \/ ~service.SchedulerSet
       \/ NextReturned /\ ret.kind = ErrNoInstance

\* C8: a request whose host resolves to no service, to a disabled service, to
\* a service without scheduler, or whose Scheduler.Next() returns an error,
\* is answered with status 503 and the error page, and no upstream
\* connection is attempted for it.
C8_DispatcherFallback ==
    Fallback =>
       /\ req.hpc \in {"next", "done"}
       /\ req.hpc = "next" => w = NewResponseWriter
       /\ req.hpc = "done" =>
             w = [status |-> StatusServiceUnavailable, body |-> <<"error page">>]
       /\ backend = NoBackend

\* C8 witness: an enabled, registered service with a scheduler and a
\* non-empty list has been asked, Next() returned the error, and the 503 is
\* written
C8_Witness ==
    /\ req.hpc = "done"
    /\ routes[req.host] \in RegisteredServices
    /\ service.IsEnabled
    /\ service.SchedulerSet
    /\ NextReturned
    /\ ret.kind = ErrNoInstance
    /\ wrr.deployments # <<>>
    /\ w.status = StatusServiceUnavailable

\* C9: after a failed upstream dial the handler has written its one error
\* response and stops: it neither enters the streaming step nor touches the
\* missing response.
C9_DialFailureStops ==
    req.err = "dial" =>
       /\ req.hpc \notin {"stream", "streamed", "panicked"}
       /\ w.body = <<"error page">>

\* C10: the error page is never written after a chunk of the upstream body
\* has been written to the client.
C10_NoErrorPageAfterChunk ==
    \A j, k \in 1..Len(w.body) :
       j < k => ~(w.body[j] = "chunk" /\ w.body[k] = "error page")

\* C11: when the handler returns, the body of every response that the
\* upstream round trip returned has been closed, on the success path as well
\* as on the streaming-error paths.
C11_ResponseBodyClosed ==
    (req.hpc = "done" /\ backend.response # "nil") =>
       backend.response = "closed"

\* the number of entries of ds that equal d
RECURSIVE Count(_, _)
Count(ds, d) ==
    IF ds = <<>> THEN 0
    ELSE (IF Head(ds) = d THEN 1 ELSE 0) + Count(Tail(ds), d)

\* ds holds the same entries as l, as a multiset, except that one d is gone
IsWithoutOne(ds, l, d) ==
    /\ Len(ds) = Len(l) - 1
    /\ \A k \in 1..Len(l) :
          Count(ds, l[k]) = Count(l, l[k]) - (IF l[k] = d THEN 1 ELSE 0)

\* C12: while RegisterDeployment or UnregisterDeployment runs beside a Next()
\* call, the list the scheduler's loop reads is the list as it was before the
\* mutation or the list as it is after it, never an intermediate list.
C12_NoIntermediateList ==
    (pc = "lookup" /\ mut.mpc # "idle") =>
       \/ wrr.deployments = mut.before
       \/ mut.op = "RegisterDeployment"
             /\ wrr.deployments = Append(mut.before, mut.d)
       \/ mut.op = "UnregisterDeployment"
             /\ IsWithoutOne(wrr.deployments, mut.before, mut.d)

\* C13: the scheduler selects over the registry's list at all times; after a
\* successful RegisterDeployment the list contains the registered deployment,
\* after a successful UnregisterDeployment it holds the removed deployment
\* once less (not at all, if it was held once); RegisterDeployment for a
\* service that is not registered fails with ErrUnregisteredService and
\* changes nothing.
C13_SchedulerListIsRegistryList ==
    /\ wrr.deployments = Deployments
    /\ (call.op = "RegisterDeployment" /\ ret.kind = Nil) =>
          /\ call.serviceID \in RegisteredServices
          /\ \E k \in 1..Len(Deployments) : Deployments[k] = call.d
          /\ Count(Deployments, call.d) = Count(call.Deployments, call.d) + 1
    /\ (call.op = "UnregisterDeployment" /\ ret.kind = Nil) =>
          Count(Deployments, call.d) = Count(call.Deployments, call.d) - 1
    /\ (call.op = "RegisterDeployment"
           /\ call.serviceID \notin RegisteredServices) =>
          /\ ret.kind = ErrUnregisteredService
          /\ Deployments = call.Deployments
          /\ Services = call.Services
          /\ routes = call.routes

\* C13 witness: a deployment has been registered behind another one and the
\* scheduler selects over both
C13_Witness ==
    /\ call.op = "RegisterDeployment"
    /\ ret.kind = Nil
    /\ Len(call.Deployments) = 1
    /\ call.Deployments[1] # call.d
    /\ wrr.deployments = <<call.Deployments[1], call.d>>

\* C14: UnregisterDeployment with force = false on a registered deployment
\* (the argument carrying the attach flags of the registry's own entities)
\* succeeds if its node is detached, if its instance is detached and if both
\* are, and fails with ErrDeploymentNotRemovable, leaving the list unchanged,
\* exactly when both are attached.
C14_RemovableIffEitherDetached ==
    (/\ call.op = "UnregisterDeployment"
     /\ ~call.force
     /\ call.serviceID \in RegisteredServices
     /\ Count(call.Deployments, call.d) >= 1
     /\ call.node = nodes[call.d.Node].IsAttached
     /\ call.instance = instances[call.d.Instance].IsAttached)
    => IF call.node /\ call.instance
       THEN ret.kind = ErrDeploymentNotRemovable /\ Deployments = call.Deployments
       ELSE ret.kind = Nil

\* C15: a successful UnregisterDeployment removes exactly one entry with the
\* argument's node ID and instance ID, whatever the other fields of the
\* argument's entities and however many equal entries the list holds, and
\* keeps every other entry (as a multiset); if no entry matches, it fails with
\* ErrUnregisteredDeployment and the list is unchanged.
C15_RemovesExactlyOneMatch ==
    /\ (call.op = "UnregisterDeployment" /\ ret.kind = Nil) =>
          /\ Count(call.Deployments, call.d) >= 1
          /\ IsWithoutOne(Deployments, call.Deployments, call.d)
    /\ (call.op = "UnregisterDeployment"
           /\ call.serviceID \in RegisteredServices
           /\ Count(call.Deployments, call.d) = 0) =>
          /\ ret.kind = ErrUnregisteredDeployment
          /\ Deployments = call.Deployments

\* C15 witness: of a list that held the deployment twice and another one in
\* between, one entry has been removed, the argument's node flag differing
\* from the registered node's
C15_Witness ==
    /\ call.op = "UnregisterDeployment"
    /\ ret.kind = Nil
    /\ Len(call.Deployments) = 3
    /\ Count(call.Deployments, call.d) = 2
    /\ call.Deployments[2] # call.d
    /\ call.node # nodes[call.d.Node].IsAttached
    /\ Len(Deployments) = 2

\* C16: RegisterRoute(route, serviceID, force = false) on a registered route
\* fails with ErrRouteAlreadyRegistered and leaves the whole mapping as it
\* was; with force = true, or on an unregistered route, it succeeds and the
\* route resolves to serviceID afterwards.
C16_RegisterRoute ==
    [][\A h \in Hosts, s \in ServiceIDs, force \in BOOLEAN :
          CallRegisterRoute(h, s, force) =>
             IF routes[h] # NoService /\ ~force
             THEN /\ ret'.kind = ErrRouteAlreadyRegistered
                  /\ routes' = routes
             ELSE /\ ret'.kind = Nil
                  /\ routes'[h] = s
                  /\ \A g \in Hosts \ {h} : routes'[g] = routes[g]]_vars

\* C16 witness: a registration without force has been refused for a route
\* that resolves to the other service
C16_Witness ==
    /\ ret.kind = ErrRouteAlreadyRegistered
    /\ \A s \in ServiceIDs : ~Services[s].registered
    /\ routes["c.example.com"] = "s2"
    /\ routes["a.example.com"] = "s1"

\* C17: RegisterService with force = false for a registered service ID fails
\* with ErrServiceAlreadyRegistered and leaves the service map and the route
\* registry unchanged; a successful RegisterService stores the service, and
\* LookupService finds that service under every route of its URL list.
C17_RegisterService ==
    [][\A s \in ServiceIDs, urls \in URLLists, force \in BOOLEAN :
          RegisterService(s, urls, force) =>
             /\ (Services[s].registered /\ ~force) =>
                   /\ ret'.kind = ErrServiceAlreadyRegistered
                   /\ Services' = Services
                   /\ routes' = routes
             /\ ret'.kind = Nil =>
                   /\ Services'[s] = ServiceObject(urls)
                   /\ \A k \in 1..Len(urls) :
                         routes'[urls[k]] = s /\ LookupService(urls[k])']_vars

\* C17 witness: service s1 is stored with two routes that resolve to it, and
\* registering it once more without force has been refused
C17_Witness ==
    /\ ret.kind = ErrServiceAlreadyRegistered
    /\ Services["s1"] = ServiceObject(<<"a.example.com", "b.example.com">>)
    /\ routes["a.example.com"] = "s1"
    /\ routes["b.example.com"] = "s1"

\* C18: UnregisterService with force = false on a service with a deployment
\* whose node and instance are both attached fails with
\* ErrServiceNotRemovable and leaves the service map and the route registry
\* unchanged; for a service ID that is not registered it fails with
\* ErrUnregisteredService.
C18_UnregisterService ==
    [][\A s \in ServiceIDs, force \in BOOLEAN :
          UnregisterService(s, force) =>
             /\ ~Services[s].registered =>
                   /\ ret'.kind = ErrUnregisteredService
                   /\ Services' = Services
                   /\ routes' = routes
             /\ (/\ Services[s].registered
                 /\ ~force
                 /\ \E k \in 1..Len(ServiceDeployments(s)) :
                       /\ nodes[ServiceDeployments(s)[k].Node].IsAttached
                       /\ instances[ServiceDeployments(s)[k].Instance].IsAttached)
                => /\ ret'.kind = ErrServiceNotRemovable
                   /\ Services' = Services
                   /\ routes' = routes]_vars

\* C18 witness: the removal of the stored service s1 has been refused, its
\* second deployment being attached on an attached node
C18_Witness ==
    /\ ret.kind = ErrServiceNotRemovable
    /\ Services["s1"].registered
    /\ nodes[Deployments[2].Node].IsAttached
    /\ instances[Deployments[2].Instance].IsAttached
    /\ routes["a.example.com"] = "s1"

\* C19: after a successful UnregisterService(id) the service is gone, no
\* route of the route registry maps to id, and LookupService finds nothing
\* under any route that resolved to the service before.
C19_UnregisterServiceRemovesRoutes ==
    [][\A s \in ServiceIDs, force \in BOOLEAN :
          (UnregisterService(s, force) /\ ret'.kind = Nil) =>
             /\ ~Services'[s].registered
             /\ \A h \in Hosts : routes'[h] # s
             /\ \A h \in Hosts : routes[h] = s => ~LookupService(h)']_vars

\* the items a complete walk invokes the updater on
WalkTargets ==
    CASE walk.op = "UpdateNodes" ->
            UNION {{ServiceDeployments(s)[k].Node
                       : k \in 1..Len(ServiceDeployments(s))}
                      : s \in RegisteredServices}
      [] walk.op = "UpdateInstances" ->
            UNION {{ServiceDeployments(s)[k].Instance
                       : k \in 1..Len(ServiceDeployments(s))}
                      : s \in RegisteredServices}
      [] OTHER -> RegisteredServices

\* the number of deployments (for UpdateServices: services) a complete walk
\* comes by
WalkLength ==
    IF walk.op = "UpdateServices" THEN Cardinality(RegisteredServices)
    ELSE LET all == RegisteredServices IN
         (IF "s1" \in all THEN Len(ServiceDeployments("s1")) ELSE 0)
         + (IF "s2" \in all THEN Len(ServiceDeployments("s2")) ELSE 0)

\* C20: UpdateNodes, UpdateServices and UpdateInstances stop at the first
\* error: if the updater fails for a visited item, the walk returns that
\* error and the failing item is the last one the updater was invoked on; if
\* the updater never fails, it has been invoked once for every node (service
\* entity, instance) of every deployment of every registered service.
C20_FirstErrorStopsWalk ==
    (walk.op # "none" /\ walk.err # ErrInvalidUpdate) =>
       LET n == Len(walk.visited) IN
       /\ (\E k \in 1..n : walk.visited[k] \in walk.failing) <=>
             walk.err = ErrUpdater
       /\ \A k \in 1..n : walk.visited[k] \in walk.failing => k = n
       /\ ret.kind = walk.err
       /\ walk.err = Nil =>
             /\ n = WalkLength
             /\ {walk.visited[k] : k \in 1..n} = WalkTargets
       /\ WalkTargets \cap walk.failing # {} => walk.err = ErrUpdater

\* C20 witness: with both services stored and three deployments in all,
\* UpdateNodes has stopped at the second node, the first having passed
C20_Witness ==
    /\ walk.op = "UpdateNodes"
    /\ walk.err = ErrUpdater
    /\ RegisteredServices = ServiceIDs
    /\ Len(Deployments) = 2
    /\ Len(walk.visited) = 2
    /\ walk.visited[1] \notin walk.failing

\* C21: a health-check round never changes the alive flag of an instance of
\* a disabled service: while s1 is disabled, each of its instances has the
\* alive value it had when s1 was disabled.
C21_DisabledKeepsAlive ==
    ~service.IsEnabled =>
       \A i \in DeployedInstances : instances[i].IsAlive = hc.frozen[i]

\* the instances of the deployments of the services a round has found enabled
RECURSIVE ToProbe(_)
ToProbe(visited) ==
    IF visited = <<>> THEN <<>>
    ELSE (IF Head(visited).enabled
          THEN [k \in 1..Len(ServiceDeployments(Head(visited).service)) |->
                   ServiceDeployments(Head(visited).service)[k].Instance]
          ELSE <<>>)
         \o ToProbe(Tail(visited))

\* a checkServices has returned and no other has begun
RoundDone == hc.mode = "none" /\ hc.visited # <<>>

\* C22: a round visits every stored service, dials every deployment of the
\* services it finds enabled, in turn, whatever the dials before returned,
\* leaves every instance with the result of its own (last) dial, true on
\* connect and false otherwise, and no call returns an error.
C22_RoundProbesAll ==
    /\ ret \in {NoReturn, ReturnError(Nil)}
    /\ RoundDone =>
          /\ {hc.visited[k].service : k \in 1..Len(hc.visited)}
                = RegisteredServices
          /\ [k \in 1..Len(hc.probed) |-> hc.probed[k].instance]
                = ToProbe(hc.visited)
          /\ \A k \in 1..Len(hc.probed) :
                (\A j \in (k + 1)..Len(hc.probed) :
                    hc.probed[j].instance # hc.probed[k].instance)
                => instances[hc.probed[k].instance].IsAlive
                      = (hc.probed[k].dial = "ok")

\* a manual round has returned nil after a failed dial that was followed by
\* a successful one
C22_Witness ==
    /\ RoundDone
    /\ ret = ReturnError(Nil)
    /\ Len(hc.probed) >= 2
    /\ hc.probed[1].dial = "timeout"
    /\ hc.probed[Len(hc.probed)].dial = "ok"
    /\ ~instances[hc.probed[1].instance].IsAlive
    /\ instances[hc.probed[Len(hc.probed)].instance].IsAlive

\* C23: if Stop() is called while RunPeriodically runs, the loop eventually
\* exits and RunPeriodically returns; once Stop() has returned the loop has
\* exited and no round of the loop is running or starts.
C23_StopHaltsLoop ==
    /\ (hc.stop = "sending" /\ hc.loop \in {"select", "round"})
          ~> (hc.loop = "returned")
    /\ [](hc.stop = "returned" => (hc.loop = "returned" /\ hc.mode # "tick"))

\* Stop() was called during a round of the loop, and both have returned
C23_Witness ==
    /\ hc.cut > 0
    /\ hc.stop = "returned"
    /\ hc.loop = "returned"

\* C24: a Stop() issued while a round has deployments left does not wait for
\* that round: the round never runs to its end with Stop() still waiting.
C24_StopDoesNotWait ==
    ~(hc.cut > 0 /\ hc.stop = "sending" /\ hc.loop = "select")

\* C25: a factory returns a scheduler and no error for weighted_round_robin,
\* and for every other method an unsupported-method error and no scheduler,
\* without a panic.
C25_FactoryUnsupported ==
    out.op \in {"New", "NewScheduler"} =>
       IF out.method = WeightedRoundRobinBalancing
       THEN out.scheduler # Nil /\ out.err = Nil
       ELSE /\ out.scheduler = Nil
            /\ out.err \in {ErrUnsupportedMethod,
                            invalidBalancingMethodErr(out.method)}

\* C26: DetachInstance(i) leaves instance i detached with its alive flag, and
\* leaves every other instance, every node, the deployment lists and the
\* enabled flags as they were.
C26_DetachInstanceFrame ==
    [][\A i \in PoolInstances :
          DetachInstance(i) =>
             /\ ~instances'[i].IsAttached
             /\ instances'[i].IsAlive = instances[i].IsAlive
             /\ \A j \in InstanceIDs \ {i} : instances'[j] = instances[j]
             /\ nodes' = nodes
             /\ Deployments' = Deployments
             /\ wrr'.deployments = wrr.deployments
             /\ service' = service
             /\ Services' = Services]_vars

\* i1 has been detached while i3, deployed beside it, is still attached
C26_Witness ==
    /\ {"i1", "i3"} \subseteq DeployedInstances
    /\ ~instances["i1"].IsAttached
    /\ instances["i3"].IsAttached
    /\ ret = ReturnError(Nil)

Matching(filter) ==
    {id \in NodeIDs :
        /\ kv[id] # NoValue
        /\ Filter(filter, Unmarshal(kv[id]))}

\* C28: FindNodes(filter) returns one entry for each stored node the filter
\* accepts and no entry, and no empty entry, for any other.
C28_FindNodesExact ==
    out.op = "FindNodes" =>
       /\ Len(out.nodes) = Cardinality(Matching(out.filter))
       /\ \A k \in 1..Len(out.nodes) : out.nodes[k] # NoNode

\* C29: the loop body of Next() runs at most len(deployments) times per
\* call: the runs that went on to another attempt, and the one that returned
\* an instance.
C29_ScanBounded ==
    attempts + (IF pc = "idle" /\ ret.kind = "instance" THEN 1 ELSE 0)
       <= Len(wrr.deployments)

\* C30: whenever the write of a chunk fails, after a read that succeeded or
\* hit EOF, streamResponse stops and returns the error of the write.
C30_WriteFailureReturned ==
    [][\A length \in 0..1, err \in {"nil", "EOF"} :
          (/\ streamResponse(length, err, FALSE)
           /\ backend.response # "nil"
           /\ length > 0)
          => (req'.hpc = "streamed" /\ req'.err \notin {"nil", "EOF"})]_vars

\* C31: with two tasks inside Next() on one scheduler, the weight counter
\* never exceeds the weight of the node of the deployment at the cursor
C31_CounterWithinWeight ==
    LET len == Len(wrr.deployments)
        index == Rem(wrr.currentIndex, len)
    IN
    len > 0 =>
        wrr.currentWeight <= nodes[wrr.deployments[index + 1].Node].Weight

\* C32: a RegisterService call that returns an error leaves the service map
\* and the route registry exactly as they were before the call
C32_RegisterServiceAtomic ==
    [][\A s \in ServiceIDs, urls \in URLLists, force \in BOOLEAN :
          (RegisterService(s, urls, force) /\ ret'.kind # Nil) =>
             /\ Services' = Services
             /\ routes' = routes]_vars

\* C33: an UnregisterService call that returns an error, with or without
\* force, leaves the service map and the route registry exactly as they were
\* before the call
C33_UnregisterServiceAtomic ==
    [][\A s \in ServiceIDs, force \in BOOLEAN :
          (UnregisterService(s, force) /\ ret'.kind # Nil) =>
             /\ Services' = Services
             /\ routes' = routes]_vars

\* C34: every route of the route registry maps to the ID of a service that
\* is registered
C34_RoutesResolve ==
    \A h \in Hosts : routes[h] # NoService => Services[routes[h]].registered

\* C35: UnregisterDeployment with force = false keeps a registered deployment
\* whose registered node and registered instance are both attached, whatever
\* attach flags the caller's deployment value carries
C35_AttachedDeploymentKept ==
    (/\ call.op = "UnregisterDeployment"
     /\ ~call.force
     /\ call.serviceID \in RegisteredServices
     /\ Count(call.Deployments, call.d) >= 1
     /\ nodes[call.d.Node].IsAttached
     /\ instances[call.d.Instance].IsAttached)
    => Deployments = call.Deployments

\* C36: RegisterDeployment and UnregisterDeployment on a registered service
\* never crash, with or without a scheduler: a call returns nil or an error
C36_DeploymentCallsReturn ==
    call.op \in {"RegisterDeployment", "UnregisterDeployment"} =>
        ret.kind # Panic

\* C37: every call of Stop() eventually returns, whatever state the health
\* checker is in when it is called: also if RunPeriodically was never started
C37_StopReturns == (hc.stop = "sending") ~> (hc.stop = "returned")

\* C38: for a non-empty deployment list, the index a run of the loop body of
\* Next() reads the list at lies within 0..len-1, also after the cursor has
\* wrapped around at the width of an int; and the weight counter stays below
\* 2^8
C38_IndexInRange ==
    LET len == Len(wrr.deployments) IN
    (pc = "lookup" /\ len > 0 /\ LoopCond(attempts, len)) =>
        /\ Rem(wrr.currentIndex, len) \in 0..(len - 1)
        /\ wrr.currentWeight \in 0..255

====
